---- MODULE Spec2Model ----
(***************************************************************************)
(* Model of the collectionmaxxing library.                                 *)
(*                                                                         *)
(* TimedSet (src/src/TimedSet.ts): a set whose keys are evicted by one-shot *)
(* timers.  The state is the backing Map<T, Timer> (insertion ordered), the *)
(* host's table of scheduled timeouts, and the wall clock.  The host runs  *)
(* the callback of a scheduled timeout at some instant at or after its due *)
(* time and then forgets it; clearTimeout removes it from the table.  A    *)
(* Timer object is referenced by the map only, so a Timer that has left    *)
(* the map is garbage and is not part of the state.                        *)
(*                                                                         *)
(* Specifications: SpecOp is the program alone (FairSpec adds the host's   *)
(* scheduling), Spec records each call and its result in last, SpecHist    *)
(* adds the history variables stale and lastAdd, and SpecAlg applies the   *)
(* set-algebra methods to a populated set.  SpecNew starts before the     *)
(* constructor call and passes it any argument a caller can supply.       *)
(*                                                                         *)
(* OrderedMap (src/src/OrderedMap.ts): a Map whose keys are canonicalized  *)
(* by an equality function and whose ordered reads go through a cached,    *)
(* comparator-sorted copy of the entries.  A key is a record [id, inst]:   *)
(* numbers have inst 0, object keys with one id are different instances.   *)
(* SpecMap runs every method on maps of numbers and of objects, SpecMapAny *)
(* runs the lookup methods on a map whose keys may be undefined or NaN,    *)
(* and SpecIter modifies a map while a generator traverses it.             *)
(*                                                                         *)
(* OrderedSet (src/unnamed/part_002): the same design over a backing Set;  *)
(* entries then holds the elements and sortedCache the sorted values.      *)
(* SpecSet runs every method on sets of numbers, of objects and of         *)
(* numbers or undefined.                                                   *)
(***************************************************************************)
EXTENDS Integers, Sequences, FiniteSets, TLC

\* ---------------------------------------------------------------- bounds
MaxKey == 2          \* keys used by the timer model are 1..MaxKey
MaxTimeout == 2      \* timeouts (default and override) are 1..MaxTimeout
MaxTime == 2         \* the clock runs over 0..MaxTime
MaxTimers == 2       \* at most this many timeouts are scheduled at once
MaxAlgKey == 3       \* set algebra: receiver keys are 1..MaxAlgKey
MaxOtherLen == 3     \* set algebra: the argument has at most this many elements
MaxId == 2           \* OrderedMap: keys have the identifiers 1..MaxId
MaxVal == 2          \* OrderedMap: values are 1..MaxVal
MaxInitial == 2      \* OrderedMap: the constructor is given at most this many entries

Keys == 1..MaxKey
Timeouts == 1..MaxTimeout
TimerIds == 1..MaxTimers
AlgKeys == 1..MaxAlgKey
Elems == 1..(MaxAlgKey + 1)

\* an omitted timeoutOverload argument (undefined)
Undefined == -1

VARIABLES
    now,        \* Date.now()
    timeOut,    \* TimedSet._timeOut, the default timeout
    map,        \* TimedSet._map: sequence of <<key, Timer>> in insertion order
    timeouts,   \* the host's scheduled timeouts: records [id, key, due]
    last,       \* the operation that produced this state and what it returned
    stale,      \* history: ids of scheduled timeouts whose key was cancelled after they were scheduled
    lastAdd,    \* history: per key, the latest add/refresh not followed by delete/clear
    setOp,      \* the set-algebra call made on the set: operation, argument, result
    mode,       \* OrderedMap: the key type and the functions given to the constructor
    entries,    \* OrderedMap: the backing Map, a sequence of <<key, value>> in insertion order
    sortedCache,\* OrderedMap._sortedEntries: absent, or an array of <<key, value>>
    mlast,      \* OrderedMap: the call that produced this state and what it returned
    iter        \* OrderedMap: the generator object of a traversal in progress

tsVars == <<now, timeOut, map, timeouts, last, stale, lastAdd, setOp>>

omVars == <<mode, entries, sortedCache, mlast, iter>>

vars == <<now, timeOut, map, timeouts, last, stale, lastAdd, setOp,
          mode, entries, sortedCache, mlast, iter>>

\* ------------------------------------------------- the host Map<T, Timer>
Range(s) == {s[i] : i \in 1..Len(s)}

MapKeys(m) == [i \in 1..Len(m) |-> m[i][1]]

MapHas(m, k) == \E i \in 1..Len(m) : m[i][1] = k

MapGet(m, k) == m[CHOOSE i \in 1..Len(m) : m[i][1] = k][2]

\* Map.prototype.set: an existing key keeps its position, a new key is appended
MapSet(m, k, v) ==
    IF MapHas(m, k)
    THEN [i \in 1..Len(m) |-> IF m[i][1] = k THEN <<k, v>> ELSE m[i]]
    ELSE Append(m, <<k, v>>)

RECURSIVE MapDelete(_, _)
MapDelete(m, k) ==
    IF m = <<>> THEN <<>>
    ELSE IF Head(m)[1] = k THEN MapDelete(Tail(m), k)
    ELSE <<Head(m)>> \o MapDelete(Tail(m), k)

\* ------------------------------------------------- host setTimeout table
ScheduledIds(h) == {x.id : x \in h}

\* the identity of the next timeout: any identity not in use
FreshId(h) == CHOOSE i \in TimerIds : i \notin ScheduledIds(h)

\* setTimeout(callback, delay); the callback is add()'s closure over key
SetTimeout(h, i, k, delay) == h \cup {[id |-> i, key |-> k, due |-> now + delay]}

\* clearTimeout(id): no effect when the timeout has already run
ClearTimeout(h, i) == {x \in h : x.id # i}

\* ------------------------------------------------------------ class Timer
\* new Timer(callback, delay)
NewTimer(i, delay) == [id |-> i, whenWillExecute |-> now + delay]

\* Timer.clearTimer(): the Timer object after the call
ClearTimer(t) == [t EXCEPT !.whenWillExecute = -1]

\* Timer.timeLeft
TimeLeft(t) == t.whenWillExecute - now

\* --------------------------------------------------- TimedSet, pure reads
Size == Len(map)

IsEmpty == Len(map) = 0

RawSet == MapKeys(map)

Has(k) == MapHas(map, k)

GetTimeRemaining(k) == IF ~MapHas(map, k) THEN -1 ELSE TimeLeft(MapGet(map, k))

\* the scheduled timeouts whose callback deletes key k
Pending(k) == {x \in timeouts : x.key = k}

\* the identity of the receiver object and of an object a call allocates
ThisRef == 0

\* faulty variant: the receiver itself is returned
ReturnThis == ThisRef

\* new Set(): a fresh object
NewSet == 1

\* a set-algebra call: its name, the contents of the argument before and
\* after the call, the returned set (contents and identity) or boolean
SetOpRec(o, other, res, b) ==
    [op |-> o, other |-> other, otherAfter |-> other,
     result |-> res, ref |-> NewSet, holds |-> b]

NoSetOp == SetOpRec("none", <<>>, <<>>, FALSE)

NoAdd == [id |-> 0, deadline |-> -1]

\* the record of a call: operation, key argument (0: none), boolean result
\* (FALSE for operations that return no boolean), and for refresh what
\* getTimeRemaining(key) was when it was called (-1 otherwise)
Ret(o, k, r) == [op |-> o, key |-> k, ret |-> r, before |-> -1]

\* ------------------------------------------------- OrderedMap values
\* a key is [id, inst]: numbers have inst 0, the instances of an object
\* key with one identifier differ in inst; undefined is a key too
UndefinedKey == [id |-> 0, inst |-> 0]

\* get's result when nothing is found (undefined)
Absent == 0

\* a generator object: which method made it, whether its body has started,
\* the array its loop holds, its position, the element last yielded and
\* whether it has completed; history: the sorted sequence when the method
\* was called (until the body starts), the one the body started with, and
\* whether the two differed (until the second step)
NoIter == [kind |-> "none", started |-> FALSE, arr |-> <<>>, start |-> <<>>,
           pos |-> 0, item |-> <<>>, done |-> FALSE,
           atCall |-> <<>>, moved |-> FALSE]

MRet(o, k, v, r, g) == [op |-> o, key |-> k, val |-> v, ret |-> r, got |-> g]

\* _sortedEntries when it is undefined
NoCache == [defined |-> FALSE, arr |-> <<>>]

\* faulty variant: the cached array is kept
InvalidateKeepsCache(c) == c

\* invalidate(): this._sortedEntries = undefined
Invalidate(c) == NoCache

\* no OrderedMap has been constructed
NoOrderedMap ==
    /\ mode = "none"
    /\ entries = <<>>
    /\ sortedCache = <<>>
    /\ mlast = <<>>
    /\ iter = <<>>

\* ---------------------------------------------------------------- Init
\* new TimedSet(_timeOut)
Init ==
    /\ now = 0
    /\ timeOut \in Timeouts
    /\ map = <<>>
    /\ timeouts = {}
    /\ last = Ret("new", 0, FALSE)
    /\ stale = {}
    /\ lastAdd = [k \in Keys |-> NoAdd]
    /\ setOp = NoSetOp
    /\ NoOrderedMap

\* ------------------------------------------------------------- operations
\* faulty variant: the fallback to the default timeout is missing
DelayIgnoringDefault(ov) == IF ov = Undefined THEN 0 ELSE ov

\* timeoutOverload ?? this._timeOut
Delay(ov) == IF ov = Undefined THEN timeOut ELSE ov

\* the map and host table after add(key, timeoutOverload) run on (m, h)
AddMap(m, h, k, ov) == MapSet(m, k, NewTimer(FreshId(h), Delay(ov)))

AddTimeouts(h, k, ov) == SetTimeout(h, FreshId(h), k, Delay(ov))

\* faulty variant: the callback does not delete the key
CallbackNoDelete(m, k) == m

\* the timer callback of add(): () => { this._map.delete(key) }
Callback(m, k) == MapDelete(m, k)

\* ---- the operations as relations on the program state
AddOp(k, ov) ==
    /\ Cardinality(timeouts) < MaxTimers
    /\ now + Delay(ov) <= MaxTime
    /\ map' = AddMap(map, timeouts, k, ov)
    /\ timeouts' = AddTimeouts(timeouts, k, ov)
    /\ UNCHANGED <<now, timeOut, setOp, omVars>>

DeleteOp(k) ==
    /\ IF ~MapHas(map, k)
       THEN UNCHANGED <<map, timeouts>>
       ELSE LET timeoutFunction == MapGet(map, k)
            IN  /\ timeouts' = ClearTimeout(timeouts, timeoutFunction.id)
                /\ map' = MapDelete(MapSet(map, k, ClearTimer(timeoutFunction)), k)
    /\ UNCHANGED <<now, timeOut, setOp, omVars>>

\* delete's result: false on the early return, else what Map.delete returns
DeleteRet(k) == MapHas(map, k)

\* faulty variant: the presence test is missing
RefreshOpUntested(k) == AddOp(k, Undefined)

RefreshOp(k) ==
    /\ IF ~MapHas(map, k)
       THEN UNCHANGED <<map, timeouts>>
       ELSE LET timeoutFunction == MapGet(map, k)
                cleared == ClearTimeout(timeouts, timeoutFunction.id)
                clearedMap == MapSet(map, k, ClearTimer(timeoutFunction))
            IN  /\ Cardinality(cleared) < MaxTimers
                /\ now + timeOut <= MaxTime
                /\ map' = AddMap(clearedMap, cleared, k, Undefined)
                /\ timeouts' = AddTimeouts(cleared, k, Undefined)
    /\ UNCHANGED <<now, timeOut, setOp, omVars>>

RefreshRet(k) == MapHas(map, k)

RECURSIVE ClearAll(_, _)
\* for (const [, value] of this._map) value.clearTimer()
ClearAll(m, h) ==
    IF m = <<>> THEN h ELSE ClearAll(Tail(m), ClearTimeout(h, Head(m)[2].id))

ClearOp ==
    /\ timeouts' = ClearAll(map, timeouts)
    /\ map' = <<>>
    /\ UNCHANGED <<now, timeOut, setOp, omVars>>

\* the host runs the callback of a due timeout and forgets the timeout
FireOp(x) ==
    /\ x \in timeouts
    /\ now >= x.due
    /\ timeouts' = timeouts \ {x}
    /\ map' = Callback(map, x.key)
    /\ UNCHANGED <<now, timeOut, setOp, omVars>>

TickOp ==
    /\ now < MaxTime
    /\ now' = now + 1
    /\ UNCHANGED <<timeOut, map, timeouts, setOp, omVars>>

\* ---- SpecOp: the program alone
AddCore(k, ov) == AddOp(k, ov) /\ UNCHANGED <<last, stale, lastAdd>>

DeleteCore(k) == DeleteOp(k) /\ UNCHANGED <<last, stale, lastAdd>>

RefreshCore(k) == RefreshOp(k) /\ UNCHANGED <<last, stale, lastAdd>>

ClearCore == ClearOp /\ UNCHANGED <<last, stale, lastAdd>>

FireCore(x) == FireOp(x) /\ UNCHANGED <<last, stale, lastAdd>>

TickCore == TickOp /\ UNCHANGED <<last, stale, lastAdd>>

NextOp ==
    \/ \E k \in Keys, ov \in Timeouts \cup {Undefined} : AddCore(k, ov)
    \/ \E k \in Keys : DeleteCore(k)
    \/ \E k \in Keys : RefreshCore(k)
    \/ ClearCore
    \/ \E x \in timeouts : FireCore(x)
    \/ TickCore

SpecOp == Init /\ [][NextOp]_vars

\* ---- Spec: the program, with each call and its result recorded in last
\* (for a timer callback, last.ret tells whether it removed the key)
LastAdd(k) == Ret("add", k, FALSE)

LastDelete(k) == Ret("delete", k, DeleteRet(k))

LastRefresh(k) ==
    [Ret("refresh", k, RefreshRet(k)) EXCEPT
        !.before = IF RefreshRet(k) THEN GetTimeRemaining(k) ELSE -1]

LastClear == Ret("clear", 0, FALSE)

LastFire(x) == Ret("fire", x.key, MapHas(map, x.key))

LastTick == Ret("tick", 0, FALSE)

Add(k, ov) == AddOp(k, ov) /\ last' = LastAdd(k) /\ UNCHANGED <<stale, lastAdd>>

Delete(k) == DeleteOp(k) /\ last' = LastDelete(k) /\ UNCHANGED <<stale, lastAdd>>

Refresh(k) == RefreshOp(k) /\ last' = LastRefresh(k) /\ UNCHANGED <<stale, lastAdd>>

Clear == ClearOp /\ last' = LastClear /\ UNCHANGED <<stale, lastAdd>>

Fire(x) == FireOp(x) /\ last' = LastFire(x) /\ UNCHANGED <<stale, lastAdd>>

Tick == TickOp /\ last' = LastTick /\ UNCHANGED <<stale, lastAdd>>

Next ==
    \/ \E k \in Keys, ov \in Timeouts \cup {Undefined} : Add(k, ov)
    \/ \E k \in Keys : Delete(k)
    \/ \E k \in Keys : Refresh(k)
    \/ Clear
    \/ \E x \in timeouts : Fire(x)
    \/ Tick

Spec == Init /\ [][Next]_vars

\* ------------------------------------------------------- construction
\* values a caller can pass as _timeOut besides the numbers of Timeouts:
\* undefined (Undefined), NaN and a non-numeric string
NotANumber == -2

NonNumericString == -3

\* Number.isNaN(x): true of the number NaN only, without coercion
NumberIsNaN(x) == x = NotANumber

\* before new TimedSet(...) is evaluated
InitNew ==
    /\ now = 0
    /\ timeOut = Undefined
    /\ map = <<>>
    /\ timeouts = {}
    /\ last = Ret("none", 0, FALSE)
    /\ stale = {}
    /\ lastAdd = [k \in Keys |-> NoAdd]
    /\ setOp = NoSetOp
    /\ NoOrderedMap

\* new TimedSet(arg): the parameter property is assigned, then the
\* constructor throws or creates the map
Construct(arg) ==
    /\ last.op = "none"
    /\ timeOut' = arg
    /\ map' = <<>>
    /\ last' = Ret(IF NumberIsNaN(arg) THEN "throw" ELSE "new", 0, FALSE)
    /\ UNCHANGED <<now, timeouts, stale, lastAdd, setOp, omVars>>

\* a set was constructed and its timeout is a number
Usable == last.op \notin {"none", "throw"} /\ timeOut \in Timeouts

NextNew ==
    \/ \E arg \in Timeouts \cup {Undefined, NotANumber, NonNumericString} :
          Construct(arg)
    \/ \E k \in Keys, ov \in Timeouts \cup {Undefined} : Usable /\ Add(k, ov)
    \/ \E k \in Keys : Usable /\ Delete(k)
    \/ \E k \in Keys : Usable /\ Refresh(k)
    \/ Usable /\ Clear
    \/ \E x \in timeouts : Fire(x)
    \/ Usable /\ Tick

\* construction with any argument, then the operations on a set whose
\* timeout is a number
SpecNew == InitNew /\ [][NextNew]_vars

\* ---- SpecHist: Spec with the history variables stale and lastAdd
\* the stale timeouts once key k has been cancelled and the table is h
StaleAfter(k, h) == (stale \cup {x.id : x \in Pending(k)}) \cap ScheduledIds(h)

AddHist(k, ov) ==
    /\ AddOp(k, ov)
    /\ last' = LastAdd(k)
    /\ lastAdd' = [lastAdd EXCEPT ![k] =
                     [id |-> FreshId(timeouts), deadline |-> now + Delay(ov)]]
    /\ UNCHANGED stale

DeleteHist(k) ==
    /\ DeleteOp(k)
    /\ last' = LastDelete(k)
    /\ lastAdd' = [lastAdd EXCEPT ![k] = NoAdd]
    /\ stale' = IF DeleteRet(k) THEN StaleAfter(k, timeouts') ELSE stale

RefreshHist(k) ==
    /\ RefreshOp(k)
    /\ last' = LastRefresh(k)
    /\ lastAdd' = IF RefreshRet(k)
                  THEN [lastAdd EXCEPT ![k] =
                          [id |-> MapGet(map', k).id, deadline |-> now + timeOut]]
                  ELSE lastAdd
    /\ stale' = IF RefreshRet(k)
                THEN StaleAfter(k, ClearTimeout(timeouts, MapGet(map, k).id))
                ELSE stale

ClearHist ==
    /\ ClearOp
    /\ last' = LastClear
    /\ lastAdd' = [k \in Keys |-> NoAdd]
    /\ stale' = ScheduledIds(timeouts')

FireHist(x) ==
    /\ FireOp(x)
    /\ last' = LastFire(x)
    /\ lastAdd' = [lastAdd EXCEPT ![x.key] =
                     IF @.id = x.id THEN [@ EXCEPT !.id = 0] ELSE @]
    /\ stale' = stale \ {x.id}

TickHist == TickOp /\ last' = LastTick /\ UNCHANGED <<stale, lastAdd>>

NextHist ==
    \/ \E k \in Keys, ov \in Timeouts \cup {Undefined} : AddHist(k, ov)
    \/ \E k \in Keys : DeleteHist(k)
    \/ \E k \in Keys : RefreshHist(k)
    \/ ClearHist
    \/ \E x \in timeouts : FireHist(x)
    \/ TickHist

SpecHist == Init /\ [][NextHist]_vars

\* ------------------------------------------------- TimedSet set algebra
\* A host Set<T> (the results) is a sequence without duplicates in insertion
\* order; the argument `other` is a set-like whose keys() yields the sequence
\* setOp.other.
SetHas(r, e) == \E i \in 1..Len(r) : r[i] = e

SetAdd(r, e) == IF SetHas(r, e) THEN r ELSE Append(r, e)

RECURSIVE SetDelete(_, _)
SetDelete(r, e) ==
    IF r = <<>> THEN <<>>
    ELSE IF Head(r) = e THEN Tail(r)
    ELSE <<Head(r)>> \o SetDelete(Tail(r), e)

RECURSIVE AddKeys(_, _)
\* while (!element.done) { result.add(element.value); element = thisIterator.next() }
AddKeys(r, it) ==
    IF it = <<>> THEN r ELSE AddKeys(SetAdd(r, Head(it)), Tail(it))

RECURSIVE UnionOther(_, _, _)
\* union's second loop: its condition reads element.done, the iterator
\* result of the first loop, and the body advances otherIterator
UnionOther(r, it, elementDone) ==
    IF elementDone THEN r
    ELSE UnionOther(SetAdd(r, Head(it)), Tail(it), elementDone)

\* union(other) on the receiver's map m; the first loop exits when
\* element.done is true
UnionOf(m, other) == UnionOther(AddKeys(<<>>, MapKeys(m)), other, TRUE)

RECURSIVE SymDiffOther(_, _, _)
\* symmetricDifference's second loop, guarded by element.done as well
SymDiffOther(r, it, elementDone) ==
    IF elementDone THEN r
    ELSE SymDiffOther(IF SetHas(r, Head(it)) THEN SetDelete(r, Head(it))
                      ELSE SetAdd(r, Head(it)),
                      Tail(it), elementDone)

SymmetricDifferenceOf(m, other) == SymDiffOther(AddKeys(<<>>, MapKeys(m)), other, TRUE)

RECURSIVE IntersectLoopNoProbe(_, _, _)
\* faulty variant: the membership probe of the receiver is missing
IntersectLoopNoProbe(r, it, m) ==
    IF it = <<>> THEN r
    ELSE IntersectLoopNoProbe(SetAdd(r, Head(it)), Tail(it), m)

RECURSIVE IntersectLoop(_, _, _)
\* intersection's loop over other.keys(), probing this._map.has
IntersectLoop(r, it, m) ==
    IF it = <<>> THEN r
    ELSE IntersectLoop(IF MapHas(m, Head(it)) THEN SetAdd(r, Head(it)) ELSE r,
                       Tail(it), m)

IntersectionOf(m, other) == IntersectLoop(<<>>, other, m)

\* the set-likes passed as `other`: duplicate-free sequences of elements
Others ==
    {o \in UNION {[1..n -> Elems] : n \in 0..MaxOtherLen} :
        \A i, j \in 1..Len(o) : i # j => o[i] # o[j]}

\* the receivers: duplicate-free key sequences, each key added with the
\* default timeout at time 0
Receivers ==
    {a \in UNION {[1..n -> AlgKeys] : n \in 0..MaxAlgKey} :
        \A i, j \in 1..Len(a) : i # j => a[i] # a[j]}

InitAlg ==
    /\ now = 0
    /\ timeOut \in Timeouts
    /\ \E a \in Receivers :
          /\ map = [i \in 1..Len(a) |-> <<a[i], [id |-> i, whenWillExecute |-> timeOut]>>]
          /\ timeouts = {[id |-> i, key |-> a[i], due |-> timeOut] : i \in 1..Len(a)}
    /\ last = Ret("new", 0, FALSE)
    /\ stale = {}
    /\ lastAdd = [k \in Keys |-> NoAdd]
    /\ setOp = NoSetOp
    /\ NoOrderedMap

Union(other) ==
    /\ setOp = NoSetOp
    /\ setOp' = SetOpRec("union", other, UnionOf(map, other), FALSE)
    /\ UNCHANGED <<now, timeOut, map, timeouts, last, stale, lastAdd, omVars>>

SymmetricDifference(other) ==
    /\ setOp = NoSetOp
    /\ setOp' = SetOpRec("symmetricDifference", other,
                          SymmetricDifferenceOf(map, other), FALSE)
    /\ UNCHANGED <<now, timeOut, map, timeouts, last, stale, lastAdd, omVars>>

Intersection(other) ==
    /\ setOp = NoSetOp
    /\ setOp' = SetOpRec("intersection", other, IntersectionOf(map, other), FALSE)
    /\ UNCHANGED <<now, timeOut, map, timeouts, last, stale, lastAdd, omVars>>

RECURSIVE DifferenceLoop(_, _)
\* difference's loop over other.keys(): result.delete(currentKey.value)
DifferenceLoop(r, it) ==
    IF it = <<>> THEN r ELSE DifferenceLoop(SetDelete(r, Head(it)), Tail(it))

\* faulty variant: the operands are exchanged
DifferenceOfExchanged(m, other) == DifferenceLoop(AddKeys(<<>>, other), MapKeys(m))

\* new Set(this.rawSet), then the loop
DifferenceOf(m, other) == DifferenceLoop(AddKeys(<<>>, MapKeys(m)), other)

RECURSIVE IsDisjointFromOf(_, _)
\* isDisjointFrom: false at the first key of other the receiver has
IsDisjointFromOf(m, it) ==
    IF it = <<>> THEN TRUE
    ELSE IF MapHas(m, Head(it)) THEN FALSE
    ELSE IsDisjointFromOf(m, Tail(it))

RECURSIVE SubsetLoop(_, _)
\* isSubsetOf: false at the first key of the receiver that other.has rejects
SubsetLoop(ks, other) ==
    IF ks = <<>> THEN TRUE
    ELSE IF ~SetHas(other, Head(ks)) THEN FALSE
    ELSE SubsetLoop(Tail(ks), other)

\* faulty variant: the operands are exchanged
IsSubsetOfOfExchanged(m, other) == SubsetLoop(other, MapKeys(m))

IsSubsetOfOf(m, other) == SubsetLoop(MapKeys(m), other)

RECURSIVE IsSupersetOfOf(_, _)
\* isSupersetOf: false at the first key of other the receiver lacks
IsSupersetOfOf(m, it) ==
    IF it = <<>> THEN TRUE
    ELSE IF ~MapHas(m, Head(it)) THEN FALSE
    ELSE IsSupersetOfOf(m, Tail(it))

Difference(other) ==
    /\ setOp = NoSetOp
    /\ setOp' = SetOpRec("difference", other, DifferenceOf(map, other), FALSE)
    /\ UNCHANGED <<now, timeOut, map, timeouts, last, stale, lastAdd, omVars>>

IsDisjointFrom(other) ==
    /\ setOp = NoSetOp
    /\ setOp' = SetOpRec("isDisjointFrom", other, <<>>, IsDisjointFromOf(map, other))
    /\ UNCHANGED <<now, timeOut, map, timeouts, last, stale, lastAdd, omVars>>

IsSubsetOf(other) ==
    /\ setOp = NoSetOp
    /\ setOp' = SetOpRec("isSubsetOf", other, <<>>, IsSubsetOfOf(map, other))
    /\ UNCHANGED <<now, timeOut, map, timeouts, last, stale, lastAdd, omVars>>

IsSupersetOf(other) ==
    /\ setOp = NoSetOp
    /\ setOp' = SetOpRec("isSupersetOf", other, <<>>, IsSupersetOfOf(map, other))
    /\ UNCHANGED <<now, timeOut, map, timeouts, last, stale, lastAdd, omVars>>

SetReturning == {"union", "symmetricDifference", "intersection", "difference"}

\* the caller clears the set a call returned: Set.clear() on a fresh object,
\* TimedSet.clear() when the object is the receiver
ResultClear ==
    /\ setOp.op \in SetReturning
    /\ setOp' = [setOp EXCEPT !.op = "resultCleared", !.result = <<>>]
    /\ IF setOp.ref = ThisRef
       THEN /\ timeouts' = ClearAll(map, timeouts)
            /\ map' = <<>>
       ELSE UNCHANGED <<map, timeouts>>
    /\ UNCHANGED <<now, timeOut, last, stale, lastAdd, omVars>>

NextAlg ==
    \/ \E other \in Others : Union(other)
    \/ \E other \in Others : SymmetricDifference(other)
    \/ \E other \in Others : Intersection(other)
    \/ \E other \in Others : Difference(other)
    \/ \E other \in Others : IsDisjointFrom(other)
    \/ \E other \in Others : IsSubsetOf(other)
    \/ \E other \in Others : IsSupersetOf(other)
    \/ ResultClear

SpecAlg == InitAlg /\ [][NextAlg]_vars

\* the host's event loop runs every due timeout, and time passes
FairSpec ==
    /\ SpecOp
    /\ WF_vars(TickCore)
    /\ \A i \in TimerIds : WF_vars(\E x \in timeouts : x.id = i /\ FireCore(x))

\* ------------------------------------------------------- TimedSet claims

\* C1: every key has at most one scheduled timeout at any time
C1_OneTimerPerKey == \A k \in Keys : Cardinality(Pending(k)) <= 1

\* C2: when a timer callback removes a key, the clock has reached the
\* expiration instant set by the key's most recent add or refresh
C2_NoEarlyExpiry ==
    [][\A k \in Keys :
         (last'.op = "fire" /\ last'.key = k /\ Has(k) /\ ~Has(k)')
            => now >= MapGet(map, k).whenWillExecute]_vars

\* C3: a timeout scheduled for a key before the key was cancelled by delete,
\* refresh or clear never runs and removes the key afterwards
C3_NoStaleCallback ==
    [][\A x \in timeouts :
         (x.id \in stale /\ x \notin timeouts' /\ last'.op = "fire" /\ Has(x.key))
            => Has(x.key)']_vars

\* C4: a key added with timeout T at t0 and not re-added, refreshed, deleted
\* or cleared since is present at every time before t0 + T, and once its
\* timer has fired it is absent and getTimeRemaining is -1
C4_AddedKeyLivesUntilTimeout ==
    \A k \in Keys :
        lastAdd[k] # NoAdd =>
            /\ now < lastAdd[k].deadline => Has(k)
            /\ lastAdd[k].id = 0 =>
                   /\ ~Has(k)
                   /\ k \notin Range(RawSet)
                   /\ Size = Cardinality(Range(RawSet) \ {k})
                   /\ GetTimeRemaining(k) = -1

\* C5: under fair firing of due timeouts every present key is eventually
\* absent, and a present key's own timer is always still scheduled to remove it
C5_EventuallyEvicted ==
    /\ \A k \in Keys : Has(k) ~> ~Has(k)
    /\ [](\A k \in Keys : Has(k) =>
             \E x \in timeouts : x.id = MapGet(map, k).id /\ x.key = k)

\* every key is present and the timer of each is due, none has fired yet
C5_Witness ==
    /\ \A k \in Keys :
          /\ Has(k)
          /\ \E x \in timeouts : x.id = MapGet(map, k).id /\ x.key = k /\ now >= x.due
    /\ now > 0

\* C6: refresh of a present key returns true and sets its expiration to
\* now + the default timeout, so that getTimeRemaining equals the default
\* timeout right after the call, whatever timeout the key was added with
C6_RefreshResetsToDefault ==
    [][\A k \in Keys :
         (last'.op = "refresh" /\ last'.key = k /\ Has(k)) =>
            /\ last'.ret
            /\ Has(k)'
            /\ MapGet(map', k).whenWillExecute = now' + timeOut'
            /\ GetTimeRemaining(k)' = timeOut']_vars

\* a key added with an override larger than the default has been refreshed
C6_Witness ==
    /\ last.op = "refresh"
    /\ last.ret
    /\ last.before > timeOut
    /\ GetTimeRemaining(last.key) = timeOut

\* C7: right after clear() the set is empty and no timeout is scheduled
C7_ClearLeavesNoTimer ==
    last.op = "clear" =>
        (Size = 0 /\ IsEmpty /\ (\A k \in Keys : ~Has(k)) /\ timeouts = {})


\* C8: union(other) contains exactly the receiver's keys and other's elements
C8_UnionIsUnion ==
    setOp.op = "union" =>
        Range(setOp.result) = Range(RawSet) \cup Range(setOp.other)

\* C9: symmetricDifference(other) contains exactly the elements that belong
\* to exactly one of the receiver and other
C9_SymmetricDifference ==
    setOp.op = "symmetricDifference" =>
        Range(setOp.result) =
            (Range(RawSet) \ Range(setOp.other)) \cup (Range(setOp.other) \ Range(RawSet))

\* C10: intersection(other) contains exactly the receiver's keys that are
\* elements of other, whichever of the two is smaller
C10_IntersectionIsIntersection ==
    setOp.op = "intersection" =>
        /\ Range(setOp.result) = Range(RawSet) \cap Range(setOp.other)
        /\ Len(setOp.result) = Cardinality(Range(setOp.result))

\* A = {1,2,3}, B = {2,3,4}: A.intersection(B) = {2,3}
C10_Witness ==
    /\ setOp.op = "intersection"
    /\ RawSet = <<1, 2, 3>>
    /\ setOp.other = <<2, 3, 4>>
    /\ Range(setOp.result) = {2, 3}

\* ------------------------------------------------------------ OrderedMap
Ids == 1..MaxId
\* object keys: the stored instance and another one with the same identifier
Insts == {1, 2}
Vals == 1..MaxVal

\* NaN, a number that is a legal Map key and is not === to itself
NaNKey == [id |-> -1, inst |-> 0]

Numbers == {[id |-> i, inst |-> 0] : i \in Ids}

\* objects that implement eq (same identifier) and cmp (by rank)
Objects == {[id |-> i, inst |-> n] : i \in Ids, n \in Insts}

\* the keys of each kind of map:
\*   "natural"  new OrderedMap<number, V>()
\*   "reverse"  new OrderedMap<number, V>(undefined, undefined, (a, b) => b - a)
\*   "object"   new OrderedMap<Obj, V>(), Obj implementing Eq and Cmp
\*   "any"      new OrderedMap<number | undefined, V>()
\*   "optional" new OrderedSet<number | undefined>()
\*   "nullish"  new OrderedMap<number | undefined, V>(undefined,
\*                  (a, b) => (a ?? 1) === (b ?? 1))
KeyDomain ==
    IF mode = "object" THEN Objects
    ELSE IF mode = "any" THEN Numbers \cup {UndefinedKey, NaNKey}
    ELSE IF mode \in {"nullish", "optional"} THEN Numbers \cup {UndefinedKey}
    ELSE Numbers

ImplementsEq(x) == x.inst > 0

ImplementsCmp(x) == x.inst > 0

\* the field an object key's cmp orders by; several identifiers share a rank
Rank(x) == (x.id + 1) \div 2

\* a === b
StrictEquals(a, b) == a = b /\ a # NaNKey

\* a < b on numbers; false when an operand is undefined or NaN
LessThan(a, b) == a.id > 0 /\ b.id > 0 /\ a.id < b.id

DefaultEqualityFn(a, b) ==
    IF ImplementsEq(a) THEN a.id = b.id ELSE StrictEquals(a, b)

DefaultComparatorFn(a, b) ==
    IF ImplementsCmp(a)
    THEN (IF Rank(a) < Rank(b) THEN -1 ELSE IF Rank(a) > Rank(b) THEN 1 ELSE 0)
    ELSE IF LessThan(a, b) THEN -1
    ELSE IF LessThan(b, a) THEN 1
    ELSE 0

\* this.equalityFn = equalityFn ?? defaultEqualityFn; the equality given in
\* the kind "nullish" is (a, b) => (a ?? 1) === (b ?? 1)
EqualityFn(a, b) ==
    LET OrOne(x) == IF x = UndefinedKey THEN [id |-> 1, inst |-> 0] ELSE x
    IN  IF mode = "nullish" THEN StrictEquals(OrOne(a), OrOne(b))
        ELSE DefaultEqualityFn(a, b)

\* this.comparatorFn = comparatorFn ?? defaultComparatorFn
ComparatorFn(a, b) ==
    IF mode = "reverse" THEN b.id - a.id ELSE DefaultComparatorFn(a, b)

RECURSIVE FindKeyIn(_, _)
\* findKey's loop over super.keys(): the first equal key, else undefined
FindKeyIn(ks, key) ==
    IF ks = <<>> THEN UndefinedKey
    ELSE IF EqualityFn(Head(ks), key) THEN Head(ks)
    ELSE FindKeyIn(Tail(ks), key)

FindKey(e, key) == FindKeyIn(MapKeys(e), key)

\* a ?? b
Coalesce(a, b) == IF a = UndefinedKey THEN b ELSE a

\* faulty variant: the argument is always the key that is stored
SetEntriesOwnKey(e, key, value) == MapSet(e, key, value)

\* set: super.set(this.findKey(key) ?? key, value)
SetEntries(e, key, value) == MapSet(e, Coalesce(FindKey(e, key), key), value)

\* has: this.findKey(key) !== undefined
HasOf(e, key) == FindKey(e, key) # UndefinedKey

\* get: existing !== undefined ? super.get(existing) : undefined
GetOf(e, key) ==
    IF FindKey(e, key) # UndefinedKey THEN MapGet(e, FindKey(e, key)) ELSE Absent

\* faulty variant: the entry is removed and false is returned
DeleteRetOfFalse(e, key) == FALSE

\* delete's result: super.delete(existingKey), or false
DeleteRetOf(e, key) ==
    IF FindKey(e, key) # UndefinedKey THEN MapHas(e, FindKey(e, key)) ELSE FALSE

\* faulty variant: every element goes to the end
InsertSortedAtEnd(arr, x) == Append(arr, x)

RECURSIVE InsertSorted(_, _)
\* Array.prototype.sort is stable: an element goes after those that do not
\* compare greater than it
InsertSorted(arr, x) ==
    IF arr = <<>> THEN <<x>>
    ELSE IF ComparatorFn(Head(arr)[1], x[1]) > 0 THEN <<x>> \o arr
    ELSE <<Head(arr)>> \o InsertSorted(Tail(arr), x)

RECURSIVE SortFrom(_, _)
SortFrom(acc, rest) ==
    IF rest = <<>> THEN acc ELSE SortFrom(InsertSorted(acc, Head(rest)), Tail(rest))

\* Array.from(super.entries()).sort(([a], [b]) => this.comparatorFn(a, b))
Sorted(e) == SortFrom(<<>>, e)

\* get sortedEntries(): what it returns and what it leaves in the cache
SortedEntries(e, c) == IF c.defined THEN c.arr ELSE Sorted(e)

SortedEntriesCache(e, c) == [defined |-> TRUE, arr |-> SortedEntries(e, c)]

\* what keys(), values() and entries() yield when traversed to the end
KeysOf(arr) == [i \in 1..Len(arr) |-> arr[i][1]]

\* faulty variant: the values are yielded in insertion order
ValuesOfBacking(arr) == [i \in 1..Len(entries) |-> entries[i][2]]

ValuesOf(arr) == [i \in 1..Len(arr) |-> arr[i][2]]

EntriesOf(arr) == arr

\* no TimedSet has been constructed
NoTimedSet ==
    /\ now = 0
    /\ timeOut = 1
    /\ map = <<>>
    /\ timeouts = {}
    /\ last = <<>>
    /\ stale = {}
    /\ lastAdd = <<>>
    /\ setOp = <<>>

\* new OrderedMap() of one of the kinds
InitMapOf(modes) ==
    /\ NoTimedSet
    /\ mode \in modes
    /\ entries = <<>>
    /\ sortedCache = NoCache
    /\ mlast = MRet("new", UndefinedKey, Absent, FALSE, Absent)
    /\ iter = NoIter

InitMap == InitMapOf({"natural", "reverse", "object"})

RECURSIVE SetAll(_, _)
\* the constructor's loop: for (const [key, value] of entries) this.set(key, value)
SetAll(e, initial) ==
    IF initial = <<>> THEN e
    ELSE SetAll(SetEntries(e, Head(initial)[1], Head(initial)[2]), Tail(initial))

\* new OrderedMap(initial, ...) with keys that may be undefined or NaN,
\* given a sequence of at most MaxInitial entries
InitMapAny ==
    /\ NoTimedSet
    /\ mode \in {"any", "nullish"}
    /\ \E initial \in UNION {[1..n -> KeyDomain \X Vals] : n \in 0..MaxInitial} :
          entries = SetAll(<<>>, initial)
    /\ sortedCache = NoCache
    /\ mlast = MRet("new", UndefinedKey, Absent, FALSE, Absent)
    /\ iter = NoIter

\* the methods as relations on the map, then with the record of the call
OMSetOp(key, value) ==
    /\ sortedCache' = Invalidate(sortedCache)
    /\ entries' = SetEntries(entries, key, value)
    /\ UNCHANGED <<tsVars, mode, iter>>

OMSet(key, value) ==
    OMSetOp(key, value) /\ mlast' = MRet("set", key, value, FALSE, Absent)

OMGet(key) ==
    /\ mlast' = MRet("get", key, Absent, FALSE, GetOf(entries, key))
    /\ UNCHANGED <<tsVars, mode, entries, sortedCache, iter>>

OMHas(key) ==
    /\ mlast' = MRet("has", key, Absent, HasOf(entries, key), Absent)
    /\ UNCHANGED <<tsVars, mode, entries, sortedCache, iter>>

OMDeleteOp(key) ==
    /\ IF FindKey(entries, key) # UndefinedKey
       THEN /\ sortedCache' = Invalidate(sortedCache)
            /\ entries' = MapDelete(entries, FindKey(entries, key))
       ELSE UNCHANGED <<entries, sortedCache>>
    /\ UNCHANGED <<tsVars, mode, iter>>

OMDelete(key) ==
    /\ OMDeleteOp(key)
    /\ mlast' = MRet("delete", key, Absent, DeleteRetOf(entries, key), Absent)

OMClearOp ==
    /\ sortedCache' = Invalidate(sortedCache)
    /\ entries' = <<>>
    /\ UNCHANGED <<tsVars, mode, iter>>

OMClear == OMClearOp /\ mlast' = MRet("clear", UndefinedKey, Absent, FALSE, Absent)

\* the ordered reads: keys(), values(), entries() and the default iteration
\* traversed to the end, and forEach
Reads == {"keys", "values", "entries", "forEach"}

OMRead(kind) ==
    /\ sortedCache' = SortedEntriesCache(entries, sortedCache)
    /\ mlast' = MRet(kind, UndefinedKey, Absent, FALSE, Absent)
    /\ UNCHANGED <<tsVars, mode, entries, iter>>

NextLookup ==
    \/ \E key \in KeyDomain, value \in Vals : OMSet(key, value)
    \/ \E key \in KeyDomain : OMGet(key)
    \/ \E key \in KeyDomain : OMHas(key)
    \/ \E key \in KeyDomain : OMDelete(key)
    \/ OMClear

NextMap ==
    \/ \E key \in KeyDomain, value \in Vals : OMSet(key, value)
    \/ \E key \in KeyDomain : OMGet(key)
    \/ \E key \in KeyDomain : OMHas(key)
    \/ \E key \in KeyDomain : OMDelete(key)
    \/ OMClear
    \/ \E kind \in Reads : OMRead(kind)

\* maps of numbers and of objects, with every operation
SpecMap == InitMap /\ [][NextMap]_vars

\* a map whose keys may be undefined or NaN, or undefined under an equality
\* that identifies it with a number, with the lookup operations
SpecMapAny == InitMapAny /\ [][NextLookup]_vars

\* the generator functions: keys(), values(), entries(); the default
\* iteration returns this.entries()
Generators == {"keys", "values", "entries"}

\* faulty variant: the method reads this.sortedEntries when it is called
GeneratorObjectEager(kind, e, c) ==
    [NoIter EXCEPT !.kind = kind, !.atCall = SortedEntries(e, c),
                   !.started = TRUE, !.arr = SortedEntries(e, c),
                   !.start = SortedEntries(e, c)]

\* the object a generator method returns: its body has not run
GeneratorObject(kind, e, c) ==
    [NoIter EXCEPT !.kind = kind, !.atCall = SortedEntries(e, c)]

\* calling a generator function returns a generator object; its body has
\* not run yet
IterCall(kind) ==
    /\ iter.kind = "none" \/ iter.done
    /\ iter' = GeneratorObject(kind, entries, sortedCache)
    /\ mlast' = MRet("call", UndefinedKey, Absent, FALSE, Absent)
    /\ UNCHANGED <<tsVars, mode, entries, sortedCache>>

\* faulty variant: every step reads this.sortedEntries again
IterSourceLive(it) == SortedEntries(entries, sortedCache)

\* the array the for...of loop of the generator body iterates
IterSource(it) == it.arr

\* what the generator yields for an entry of the array
Yield(kind, entry) ==
    IF kind = "keys" THEN <<entry[1]>>
    ELSE IF kind = "values" THEN <<entry[2]>>
    ELSE entry

\* next() on the generator object: the first one evaluates
\* this.sortedEntries and starts the loop over that array, every one
\* yields the next element of the array or completes
IterNext ==
    /\ iter.kind # "none"
    /\ ~iter.done
    /\ LET src == IF iter.started THEN IterSource(iter)
                  ELSE SortedEntries(entries, sortedCache)
           start == IF iter.started THEN iter.start
                    ELSE SortedEntries(entries, sortedCache)
       IN  /\ sortedCache' = IF iter.started THEN sortedCache
                             ELSE SortedEntriesCache(entries, sortedCache)
           /\ iter' = IF iter.pos < Len(src)
                      THEN [iter EXCEPT !.started = TRUE, !.arr = src, !.start = start,
                                        !.pos = iter.pos + 1,
                                        !.item = Yield(iter.kind, src[iter.pos + 1]),
                                        !.atCall = <<>>,
                                        !.moved = iter.pos = 0 /\ start # iter.atCall]
                      ELSE [NoIter EXCEPT !.kind = iter.kind, !.started = TRUE,
                                          !.done = TRUE]
    /\ mlast' = MRet("next", UndefinedKey, Absent, FALSE, Absent)
    /\ UNCHANGED <<tsVars, mode, entries>>

\* a modification of the map between two steps of a traversal
Modified == MRet("modified", UndefinedKey, Absent, FALSE, Absent)

SetDuring(key, value) == OMSetOp(key, value) /\ mlast' = Modified

DeleteDuring(key) == OMDeleteOp(key) /\ mlast' = Modified

ClearDuring == OMClearOp /\ mlast' = Modified

NextIter ==
    \/ \E key \in KeyDomain, value \in Vals : SetDuring(key, value)
    \/ \E key \in KeyDomain : DeleteDuring(key)
    \/ ClearDuring
    \/ \E kind \in Generators : IterCall(kind)
    \/ IterNext

InitIter == InitMapOf({"natural", "reverse"})

\* maps of numbers modified while a traversal is under way
SpecIter == InitIter /\ [][NextIter]_vars

\* ------------------------------------------------------------ OrderedSet
\* An OrderedSet keeps its backing Set in entries (a sequence of elements in
\* insertion order) and _sortedValues in sortedCache.
RECURSIVE FindElement(_, _)
\* findElement's loop over super.values(): the first equal element, else
\* undefined
FindElement(vs, element) ==
    IF vs = <<>> THEN UndefinedKey
    ELSE IF EqualityFn(Head(vs), element) THEN Head(vs)
    ELSE FindElement(Tail(vs), element)

RECURSIVE SortValuesFrom(_, _)
\* Array.prototype.sort is stable: each element goes in front of the first
\* one the comparator puts after it
SortValuesFrom(acc, rest) ==
    IF rest = <<>> THEN acc
    ELSE LET x == Head(rest)
             after == {i \in 1..Len(acc) : ComparatorFn(acc[i], x) > 0}
             at == IF after = {} THEN Len(acc) + 1
                   ELSE CHOOSE i \in after : \A j \in after : i <= j
         IN  SortValuesFrom(SubSeq(acc, 1, at - 1) \o <<x>> \o SubSeq(acc, at, Len(acc)),
                            Tail(rest))

\* Array.from(super.values()).sort(this.comparatorFn): sort puts undefined
\* elements last without calling the comparator on them
SortedValuesOf(s) ==
    LET IsDefined(x) == x # UndefinedKey
        IsUndefined(x) == x = UndefinedKey
    IN  SortValuesFrom(<<>>, SelectSeq(s, IsDefined)) \o SelectSeq(s, IsUndefined)

\* get sortedValues(): what it returns (and then leaves in the cache)
SortedValues(s, c) == IF c.defined THEN c.arr ELSE SortedValuesOf(s)

\* new OrderedSet() of one of the kinds
InitSet ==
    /\ NoTimedSet
    /\ mode \in {"natural", "reverse", "object", "optional", "nullish"}
    /\ entries = <<>>
    /\ sortedCache = NoCache
    /\ mlast = MRet("new", UndefinedKey, Absent, FALSE, Absent)
    /\ iter = NoIter

OSAdd(element) ==
    /\ IF FindElement(entries, element) = UndefinedKey
       THEN /\ entries' = SetAdd(entries, element)
            /\ sortedCache' = Invalidate(sortedCache)
       ELSE UNCHANGED <<entries, sortedCache>>
    /\ mlast' = MRet("add", element, Absent, FALSE, Absent)
    /\ UNCHANGED <<tsVars, mode, iter>>

OSHas(element) ==
    /\ mlast' = MRet("has", element, Absent,
                     FindElement(entries, element) # UndefinedKey, Absent)
    /\ UNCHANGED <<tsVars, mode, entries, sortedCache, iter>>

OSDelete(element) ==
    /\ IF FindElement(entries, element) # UndefinedKey
       THEN /\ sortedCache' = Invalidate(sortedCache)
            /\ entries' = SetDelete(entries, FindElement(entries, element))
       ELSE UNCHANGED <<entries, sortedCache>>
    /\ mlast' = MRet("delete", element, Absent,
                     FindElement(entries, element) # UndefinedKey, Absent)
    /\ UNCHANGED <<tsVars, mode, iter>>

OSClear ==
    /\ sortedCache' = Invalidate(sortedCache)
    /\ entries' = <<>>
    /\ mlast' = MRet("clear", UndefinedKey, Absent, FALSE, Absent)
    /\ UNCHANGED <<tsVars, mode, iter>>

\* values(), keys(), entries() and the default iteration traversed to the
\* end, and forEach
OSRead(kind) ==
    /\ sortedCache' = [defined |-> TRUE, arr |-> SortedValues(entries, sortedCache)]
    /\ mlast' = MRet(kind, UndefinedKey, Absent, FALSE, Absent)
    /\ UNCHANGED <<tsVars, mode, entries, iter>>

NextSet ==
    \/ \E element \in KeyDomain : OSAdd(element)
    \/ \E element \in KeyDomain : OSHas(element)
    \/ \E element \in KeyDomain : OSDelete(element)
    \/ OSClear
    \/ \E kind \in Reads : OSRead(kind)

\* sets of numbers, of objects and of numbers or undefined
SpecSet == InitSet /\ [][NextSet]_vars

\* C11: difference(other) contains exactly the receiver's keys that are
\* not elements of other
C11_DifferenceIsDifference ==
    setOp.op = "difference" =>
        /\ Range(setOp.result) = Range(RawSet) \ Range(setOp.other)
        /\ Len(setOp.result) = Cardinality(Range(setOp.result))

\* A = {1,2,3}, B = {2,3,4}: A.difference(B) = {1}
C11_Witness ==
    /\ setOp.op = "difference"
    /\ RawSet = <<1, 2, 3>>
    /\ setOp.other = <<2, 3, 4>>
    /\ setOp.result = <<1>>

\* C12: isDisjointFrom is true iff no element of other is a key of the
\* receiver, isSubsetOf iff every key of the receiver is in other,
\* isSupersetOf iff every element of other is a key of the receiver
C12_SetPredicates ==
    /\ setOp.op = "isDisjointFrom" =>
          (setOp.holds <=> Range(setOp.other) \cap Range(RawSet) = {})
    /\ setOp.op = "isSubsetOf" =>
          (setOp.holds <=> Range(RawSet) \subseteq Range(setOp.other))
    /\ setOp.op = "isSupersetOf" =>
          (setOp.holds <=> Range(setOp.other) \subseteq Range(RawSet))

\* {1}.isDisjointFrom({2,3,4}) is true
C12_Witness ==
    /\ setOp.op = "isDisjointFrom"
    /\ RawSet = <<1>>
    /\ setOp.other = <<2, 3, 4>>
    /\ setOp.holds

\* C13: a set-algebra call leaves the receiver's keys, timers and expiration
\* instants and the argument's contents as they were, and clearing the
\* returned set afterwards leaves the receiver as it was
C13_OperandsUnchanged ==
    [][setOp' # setOp =>
         /\ map' = map
         /\ timeouts' = timeouts
         /\ \A k \in AlgKeys : GetTimeRemaining(k)' = GetTimeRemaining(k)
         /\ setOp'.otherAfter = setOp'.other]_vars

\* the set returned for a non-empty receiver has been cleared
C13_Witness ==
    /\ setOp.op = "resultCleared"
    /\ setOp.result = <<>>
    /\ Len(map) = MaxAlgKey
    /\ setOp.other # <<>>

C15_Canonicalization ==
    [][mlast'.op = "set" =>
          LET equal == {i \in 1..Len(entries) : EqualityFn(entries[i][1], mlast'.key)}
          IN  equal # {} =>
                /\ Len(entries') = Len(entries)
                /\ MapKeys(entries') = MapKeys(entries)
                /\ \A i \in equal : entries'[i][2] = mlast'.val]_vars

\* a set with another instance of a stored key has left the stored
\* instance in place with the new value
C15_Witness ==
    /\ mode = "object"
    /\ mlast.op = "set"
    /\ \E i \in 1..Len(entries) :
          /\ entries[i][1].id = mlast.key.id
          /\ entries[i][1].inst # mlast.key.inst
          /\ entries[i][2] = mlast.val

\* C16: the cached array is absent or equals the backing entries sorted by
\* the comparator; set, a successful delete and clear leave it absent
C16_CacheCoherent ==
    /\ sortedCache.defined => sortedCache.arr = Sorted(entries)
    /\ mlast.op \in {"set", "clear"} => ~sortedCache.defined
    /\ (mlast.op = "delete" /\ mlast.ret) => ~sortedCache.defined

\* an ordered read has filled the cache with an order that differs from
\* the insertion order
C16_Witness ==
    /\ mlast.op \in Reads
    /\ sortedCache.defined
    /\ Len(entries) = MaxId
    /\ sortedCache.arr # entries

\* C17: for every key of the key domain has(key) is true exactly when a
\* stored key equals it under the equality function, get(key) returns that
\* entry's value and is absent otherwise, and right after set(k, v) has(k)
\* is true and get(k) is v
C17_Lookup ==
    /\ \A key \in KeyDomain :
          /\ HasOf(entries, key) <=>
                \E i \in 1..Len(entries) : EqualityFn(entries[i][1], key)
          /\ \A i \in 1..Len(entries) :
                EqualityFn(entries[i][1], key) => GetOf(entries, key) = entries[i][2]
          /\ (\A i \in 1..Len(entries) : ~EqualityFn(entries[i][1], key))
                => GetOf(entries, key) = Absent
    /\ mlast.op = "set" =>
          /\ HasOf(entries, mlast.key)
          /\ GetOf(entries, mlast.key) = mlast.val

\* C18: delete(key) returns true exactly when an equal key was stored;
\* then that entry is gone, the size is one less and the cache is absent;
\* otherwise entries, size and cache are as before
C18_Delete ==
    [][mlast'.op = "delete" =>
          LET stored == {i \in 1..Len(entries) : EqualityFn(entries[i][1], mlast'.key)}
          IN  /\ mlast'.ret <=> stored # {}
              /\ stored # {} =>
                    /\ Len(entries') = Len(entries) - 1
                    /\ \A i \in 1..Len(entries') : ~EqualityFn(entries'[i][1], mlast'.key)
                    /\ Range(entries') = {entries[i] : i \in (1..Len(entries)) \ stored}
                    /\ ~sortedCache'.defined
              /\ stored = {} =>
                    /\ entries' = entries
                    /\ sortedCache' = sortedCache]_vars

\* C19: the i-th value of values() is the value stored for the i-th key of
\* keys(), and keys(), values() and entries() yield size items each
C19_ValuesFollowKeys ==
    LET S == SortedEntries(entries, sortedCache)
    IN  /\ Len(KeysOf(S)) = Len(entries)
        /\ Len(ValuesOf(S)) = Len(entries)
        /\ Len(EntriesOf(S)) = Len(entries)
        /\ \A i \in 1..Len(ValuesOf(S)) :
              ValuesOf(S)[i] = GetOf(entries, KeysOf(S)[i])

\* values() was read from a map whose sorted order differs from its
\* insertion order, with different values
C19_Witness ==
    /\ mlast.op = "values"
    /\ Len(entries) = MaxId
    /\ sortedCache.arr # entries
    /\ entries[1][2] # entries[2][2]

\* C20: once a traversal has yielded its first element, every later step
\* yields the next element of the sorted sequence it started with, and it
\* completes at the end of that sequence, whatever set, delete or clear ran
\* in between
C20_TraversalSnapshot ==
    [][(mlast'.op = "next" /\ iter.started /\ ~iter.done) =>
          IF iter.pos < Len(iter.start)
          THEN /\ ~iter'.done
               /\ iter'.item = Yield(iter.kind, iter.start[iter.pos + 1])
               /\ iter'.start = iter.start
          ELSE iter'.done]_vars

\* a traversal has just yielded an element that was deleted from the map
\* after the traversal had started
C20_Witness ==
    /\ mlast.op = "next"
    /\ iter.kind = "entries"
    /\ iter.started
    /\ ~iter.done
    /\ iter.pos > 1
    /\ iter.item \notin Range(entries)

\* C24: on an absent key delete and refresh return false, has is false and
\* getTimeRemaining is -1, and the keys and the scheduled timeouts stay as
\* they were; refresh does not insert the key
C24_AbsentKeyNoOp ==
    [][/\ \A k \in Keys : ~MapHas(map, k) => (~Has(k) /\ GetTimeRemaining(k) = -1)
       /\ (last'.op \in {"delete", "refresh"} /\ ~MapHas(map, last'.key)) =>
             /\ ~last'.ret
             /\ map' = map
             /\ timeouts' = timeouts
             /\ ~MapHas(map', last'.key)]_vars

\* refresh of an absent key has returned false while another key is
\* present with its timer
C24_Witness ==
    /\ last.op = "refresh"
    /\ ~last.ret
    /\ ~Has(last.key)
    /\ Size > 0
    /\ timeouts # {}

\* C26: a timeout is scheduled for a key only while the key is in the set;
\* after delete(K), after clear() and after K's expiry none is scheduled
\* for K
C26_TimerOnlyForPresentKey ==
    /\ \A k \in Keys : Pending(k) # {} => Has(k)
    /\ last.op \in {"delete", "fire"} => Pending(last.key) = {}
    /\ last.op = "clear" => \A k \in Keys : Pending(k) = {}

\* C23: constructing with a timeout that is not a number throws and gives
\* no set; constructing with a finite number gives an empty set
C23_ConstructionRejectsNonNumbers ==
    /\ last.op = "new" => (timeOut \in Timeouts /\ Size = 0)
    /\ last.op = "throw" => timeOut \notin Timeouts

\* C25 as claimed: the first step of a traversal yields the first element
\* of the sorted sequence that was current when keys(), values() or
\* entries() was called, or completes if that sequence was empty
C25_ViewFixedAtCall ==
    [][(mlast'.op = "next" /\ iter.kind # "none" /\ ~iter.done /\ iter.pos = 0) =>
          IF iter.atCall = <<>>
          THEN iter'.done
          ELSE /\ ~iter'.done
               /\ iter'.start = iter.atCall
               /\ iter'.item = Yield(iter.kind, iter.atCall[1])]_vars

\* C25 amended: the first step of a traversal yields the first element of
\* the sorted sequence that is current at that step, or completes if it is
\* empty; a set, delete or clear between the call and the first step is
\* reflected
C25_ViewFixedAtFirstStep ==
    [][(mlast'.op = "next" /\ iter.kind # "none" /\ ~iter.done /\ iter.pos = 0) =>
          IF Sorted(entries) = <<>>
          THEN iter'.done
          ELSE /\ ~iter'.done
               /\ iter'.start = Sorted(entries)
               /\ iter'.item = Yield(iter.kind, Sorted(entries)[1])]_vars

\* a traversal has taken its first step after the map was modified between
\* the call and that step
C25_Witness ==
    /\ mlast.op = "next"
    /\ iter.pos = 1
    /\ iter.moved
    /\ iter.start = Sorted(entries)

\* C27: when the equality function is an equivalence relation, no two
\* stored keys are equal under it, so the size is the number of equivalence
\* classes among the stored keys
C27_KeysUnique ==
    LET Equivalence ==
            /\ \A a \in KeyDomain : EqualityFn(a, a)
            /\ \A a, b \in KeyDomain : EqualityFn(a, b) => EqualityFn(b, a)
            /\ \A a, b, c \in KeyDomain :
                  (EqualityFn(a, b) /\ EqualityFn(b, c)) => EqualityFn(a, c)
        Classes == {{b \in KeyDomain : EqualityFn(a, b)} : a \in Range(MapKeys(entries))}
    IN  Equivalence =>
          /\ \A i, j \in 1..Len(entries) :
                i # j => ~EqualityFn(entries[i][1], entries[j][1])
          /\ Len(entries) = Cardinality(Classes)

\* C21: add(e) with an element equal to e stored changes nothing: the size,
\* the stored instance and the cached array stay; add(e) with no equal
\* element stored appends e and leaves the cache absent
C21_AddExistingIsNoOp ==
    [][mlast'.op = "add" =>
          IF \E i \in 1..Len(entries) : EqualityFn(entries[i], mlast'.key)
          THEN entries' = entries /\ sortedCache' = sortedCache
          ELSE entries' = Append(entries, mlast'.key) /\ ~sortedCache'.defined]_vars

\* C22: iteration yields exactly the stored elements, no two of them equal
\* under the equality function, in non-decreasing comparator order, and
\* the cached array is absent or equal to that sequence
C22_ElementsInComparatorOrder ==
    LET V == SortedValues(entries, sortedCache)
    IN  /\ Range(V) = Range(entries)
        /\ Len(V) = Len(entries)
        /\ \A i, j \in 1..Len(V) : i # j => ~EqualityFn(V[i], V[j])
        /\ \A i, j \in 1..Len(V) : i < j => ComparatorFn(V[i], V[j]) <= 0
        /\ sortedCache.defined => sortedCache.arr = SortedValuesOf(entries)

====
